---- MODULE Spec2Model ----
(***************************************************************************)
(* A model of cargo-bundler's configuration resolution:                    *)
(*   - BundleSettings::merge                  (src/bundle/metadata.rs)     *)
(*   - Settings::new / get_bundle_settings    (src/bundle/settings.rs,     *)
(*                                             src/bundle/target_info.rs)  *)
(*   - get_workspace_dir                      (src/bundle/target_info.rs)  *)
(*   - ResourcePaths / resources_paths        (src/bundle/settings.rs)     *)
(*   - get_target_dir                         (src/bundle/target_info.rs)  *)
(*   - run / bundle_project                   (src/main.rs,                *)
(*                                             src/bundle/mod.rs)          *)
(*                                                                         *)
(* Strings are TLA+ strings ("" is the empty String), Option<T> is a       *)
(* sequence of length at most one (None = <<>>, Some(v) = <<v>>), Vec<T>   *)
(* is a sequence, HashMap<String, T> is a function whose domain is the key *)
(* set (the empty map is <<>>), and a path is the sequence of its          *)
(* components.                                                             *)
(***************************************************************************)
EXTENDS Integers, Sequences, FiniteSets, TLC

VARIABLES
    pc,             \* position of the operation under study
    self,           \* merge: the higher-precedence BundleSettings (A)
    other,          \* merge: the lower-precedence BundleSettings (B)
    merged,         \* merge: the value returned by self.merge(other)
    package,        \* resolution: the cargo_metadata Package being bundled
    cli,            \* resolution: the parsed command line (bin, example)
    package_type,   \* resolution: the packaging format being processed
    settings,       \* resolution: Option<Settings> built by Settings::new
    warnings,       \* resolution: the warnings printed so far, in order
    current_dir,    \* workspace: the starting directory
    dir,            \* workspace: the directory get_workspace_dir is at
    manifests,      \* workspace: the directories whose Cargo.toml loads
    probed,         \* workspace: the directories probed so far, in order
    workspace_dir,  \* workspace: Option<PathBuf> returned
    files,          \* resources: the regular files that exist
    unreadable,     \* resources: the directories that cannot be listed
    patterns,       \* resources: the pattern list given to ResourcePaths
    rp,             \* resources: the ResourcePaths iterator
    yielded,        \* resources: what each next() call returned, in order
    resources_mapping,  \* mappings: the (pattern, destination) pairs
    mapping_index,  \* mappings: how many pairs resources_paths has done
    output,         \* mappings: the (source, destination) Vec built so far
    format,         \* run: cli.format, the --format option
    os,             \* run: the OS of the target, else of the host
    skip_build,     \* run: whether CARGO_BUNDLE_SKIP_BUILD is set
    package_types,  \* run: the Vec<PackageType> being looped over
    type_index,     \* run: how many package types the loop has taken
    attempted,      \* run: the types whose bundle_project was called
    target_directory,       \* target dir: Option, from `cargo metadata`
    project_out_directory,  \* target dir: the workspace directory
    target_triple,  \* target dir: Option<String>, the --target option
    profile,        \* target dir: the build profile
    artifact,       \* target dir: Main, Bin(name) or Example(name)
    target_path     \* target dir: Option<PathBuf> returned

mergeVars == <<self, other, merged>>
resolveVars == <<package, cli, package_type, settings, warnings>>
workspaceVars == <<current_dir, dir, manifests, probed, workspace_dir>>
fsVars == <<files, unreadable>>
iterVars == <<patterns, rp, yielded>>
mappingVars == <<resources_mapping, mapping_index, output>>
runVars == <<format, os, skip_build, package_types, type_index, attempted>>
targetDirVars ==
    <<target_directory, project_out_directory, target_triple, profile,
      artifact, target_path>>

-----------------------------------------------------------------------------
(* Bounds of the model.                                                    *)

\* how many distinct non-empty strings a field may take
NumVals == 2
\* longest Vec<String> drawn for a list-valued field
MaxLen == 2
\* deepest starting directory, in components below the filesystem root
MaxDepth == 3
\* longest pattern list given to ResourcePaths
MaxPatterns == 2
\* how many times next() is called again once it has returned None
MaxExtraCalls == 2
\* longest resources_mapping list given to resources_paths
MaxMappings == 2

-----------------------------------------------------------------------------
(* Values.                                                                 *)

None == <<>>
Some(v) == <<v>>

StrPool == <<"App", "AppDeb", "Foo App", "Bar App">>
Strs == {StrPool[i] : i \in 1..NumVals}

CategoryPool == <<"PuzzleGame", "Utility", "Business", "Music">>
Categories == {CategoryPool[i] : i \in 1..NumVals}

\* non-empty Vec<String> values
Lists == UNION {[1..n -> Strs] : n \in 1..MaxLen}
\* non-empty Vec<(String, String)> values: (source pattern, destination)
Mappings == UNION {[1..n -> {<<s, "assets">> : s \in Strs}] : n \in 1..MaxLen}

TargetKeys == {"deb", "osx"}
BinKeys == {"foo", "bar"}
ExampleKeys == {"baz", "qux"}

-----------------------------------------------------------------------------
(* BundleSettings and BundleSettings::merge.                               *)

\* BundleSettings::default(): the configuration with no field set
Empty ==
    [name |-> "", identifier |-> None, icon |-> <<>>, version |-> None,
     resources_mapping |-> <<>>, copyright |-> None, category |-> None,
     short_description |-> None, long_description |-> None,
     linux_mime_types |-> <<>>, linux_exec_args |-> None,
     linux_use_terminal |-> None, deb_depends |-> <<>>,
     osx_frameworks |-> <<>>, osx_plugins |-> None,
     osx_minimum_system_version |-> None, osx_url_schemes |-> None,
     osx_info_plist_exts |-> None,
     targets |-> <<>>, bin |-> <<>>, example |-> <<>>]

Fields == DOMAIN Empty

OptStringFields ==
    {"identifier", "version", "copyright", "short_description",
     "long_description", "linux_exec_args", "osx_minimum_system_version"}
OptVecFields == {"osx_plugins", "osx_url_schemes", "osx_info_plist_exts"}
ScalarFields ==
    {"name", "category", "linux_use_terminal"} \cup OptStringFields
ListFields ==
    {"icon", "resources_mapping", "linux_mime_types", "deb_depends",
     "osx_frameworks"}
MapFields == {"targets", "bin", "example"}

\* is field f of configuration c set (present / non-empty)?
IsSet(c, f) == c[f] # Empty[f]

\* Option::or
OptionOr_swapped(a, b) == IF b # None THEN b ELSE a
OptionOr(a, b) == IF a # None THEN a ELSE b

\* `if self.name.is_empty() { other.name } else { self.name }`
NameOrElse(a, b) == IF a = "" THEN b ELSE a

\* `if self.f.is_empty() { other.f } else { self.f }` for a Vec field f
VecOrElse_concat(a, b) == IF a = <<>> THEN b ELSE a \o b
VecOrElse(a, b) == IF a = <<>> THEN b ELSE a

\* `if self.icon.is_empty() { self.icon } else { other.icon }`
IconOrElse(a, b) == IF a = <<>> THEN a ELSE b

\* `self.m.into_iter().chain(other.m).collect()`: the entries are inserted
\* into a fresh HashMap in iteration order, self's first and other's after,
\* and an insert under an existing key replaces the entry
MapChain(a, b) ==
    [k \in DOMAIN a \cup DOMAIN b |-> IF k \in DOMAIN b THEN b[k] ELSE a[k]]

\* BundleSettings::merge(self, other)
merge(a, b) ==
    [name |-> NameOrElse(a.name, b.name),
     targets |-> MapChain(a.targets, b.targets),
     identifier |-> OptionOr(a.identifier, b.identifier),
     icon |-> IconOrElse(a.icon, b.icon),
     version |-> OptionOr(a.version, b.version),
     resources_mapping |-> VecOrElse(a.resources_mapping, b.resources_mapping),
     copyright |-> OptionOr(a.copyright, b.copyright),
     category |-> OptionOr(a.category, b.category),
     short_description |-> OptionOr(a.short_description, b.short_description),
     long_description |-> OptionOr(a.long_description, b.long_description),
     linux_mime_types |-> VecOrElse(a.linux_mime_types, b.linux_mime_types),
     linux_exec_args |-> OptionOr(a.linux_exec_args, b.linux_exec_args),
     linux_use_terminal |->
         OptionOr(a.linux_use_terminal, b.linux_use_terminal),
     deb_depends |-> VecOrElse(a.deb_depends, b.deb_depends),
     osx_frameworks |-> VecOrElse(a.osx_frameworks, b.osx_frameworks),
     osx_plugins |-> OptionOr(a.osx_plugins, b.osx_plugins),
     osx_minimum_system_version |->
         OptionOr(a.osx_minimum_system_version, b.osx_minimum_system_version),
     osx_url_schemes |-> OptionOr(a.osx_url_schemes, b.osx_url_schemes),
     osx_info_plist_exts |->
         OptionOr(a.osx_info_plist_exts, b.osx_info_plist_exts),
     bin |-> MapChain(a.bin, b.bin),
     example |-> MapChain(a.example, b.example)]

-----------------------------------------------------------------------------
(* Inputs of merge: configuration layers.                                  *)

\* a section with only its name set
Named(s) == [Empty EXCEPT !.name = s]
\* the sections an override map may hold (one level of nesting)
Sections == {Empty} \cup {Named(s) : s \in Strs}

MapsOver(keys) ==
    UNION {[ks -> Sections] : ks \in (SUBSET keys) \ {{}}}

\* the values a set field may take
FieldVals(f) ==
    CASE f = "name" -> Strs
      [] f \in OptStringFields -> {Some(s) : s \in Strs \cup {""}}
      [] f = "category" -> {Some(c) : c \in Categories}
      [] f = "linux_use_terminal" -> {Some(t) : t \in BOOLEAN}
      [] f \in OptVecFields -> {Some(l) : l \in Lists \cup {<<>>}}
      [] f = "resources_mapping" -> Mappings
      [] f \in ListFields \ {"resources_mapping"} -> Lists
      [] f = "targets" -> MapsOver(TargetKeys)
      [] f = "bin" -> MapsOver(BinKeys)
      [] f = "example" -> MapsOver(ExampleKeys)

\* a configuration with exactly one field set
Only(f, v) == [Empty EXCEPT ![f] = v]

\* a configuration with every field set, derived from the string s
Typical(s) ==
    [name |-> s, identifier |-> Some(s), icon |-> <<s>>, version |-> Some(s),
     resources_mapping |-> << <<s, "assets">> >>, copyright |-> Some(s),
     category |-> Some(CategoryPool[CHOOSE i \in 1..NumVals : StrPool[i] = s]),
     short_description |-> Some(s), long_description |-> Some(s),
     linux_mime_types |-> <<s>>, linux_exec_args |-> Some(s),
     linux_use_terminal |-> Some(s = StrPool[1]), deb_depends |-> <<s>>,
     osx_frameworks |-> <<s>>, osx_plugins |-> Some(<<s>>),
     osx_minimum_system_version |-> Some(s), osx_url_schemes |-> Some(<<s>>),
     osx_info_plist_exts |-> Some(<<s>>),
     targets |-> [k \in TargetKeys |-> Named(s)],
     bin |-> [k \in BinKeys |-> Named(s)],
     example |-> [k \in ExampleKeys |-> Named(s)]]

\* every field set but one
AllBut(f, s) == [Typical(s) EXCEPT ![f] = Empty[f]]

Layers ==
    {Empty}
    \cup {Only(f, v) : <<f, v>> \in UNION {{f} \X FieldVals(f) : f \in Fields}}
    \cup {Typical(s) : s \in Strs}
    \cup {AllBut(f, s) : f \in Fields, s \in Strs}

-----------------------------------------------------------------------------
(* Variables of the other operations, at rest.                             *)

IdleMerge == self = Empty /\ other = Empty /\ merged = Empty

IdleResolve ==
    /\ package = <<>>
    /\ cli = <<>>
    /\ package_type = ""
    /\ settings = None
    /\ warnings = <<>>

IdleWorkspace ==
    /\ current_dir = <<>>
    /\ dir = <<>>
    /\ manifests = {}
    /\ probed = <<>>
    /\ workspace_dir = None

IdleFs == files = {} /\ unreadable = {}

IdleIter == patterns = <<>> /\ rp = <<>> /\ yielded = <<>>

IdleMapping == resources_mapping = <<>> /\ mapping_index = 0 /\ output = <<>>

IdleRun ==
    /\ format = None
    /\ os = ""
    /\ skip_build = FALSE
    /\ package_types = <<>>
    /\ type_index = 0
    /\ attempted = <<>>

IdleTargetDir ==
    /\ target_directory = None
    /\ project_out_directory = <<>>
    /\ target_triple = None
    /\ profile = ""
    /\ artifact = [kind |-> "Main", name |-> ""]
    /\ target_path = None

-----------------------------------------------------------------------------
(* The merge specification: two layers are drawn, then merged.             *)

InitMerge ==
    /\ pc = "merge"
    /\ self \in Layers
    /\ other \in Layers
    /\ merged = Empty
    /\ IdleResolve
    /\ IdleWorkspace
    /\ IdleFs
    /\ IdleIter
    /\ IdleMapping
    /\ IdleRun
    /\ IdleTargetDir

Merge ==
    /\ pc = "merge"
    /\ merged' = merge(self, other)
    /\ pc' = "merged"
    /\ UNCHANGED <<self, other>>
    /\ UNCHANGED <<resolveVars, workspaceVars, fsVars, iterVars, mappingVars>>
    /\ UNCHANGED <<runVars, targetDirVars>>

vars ==
    <<pc, mergeVars, resolveVars, workspaceVars, fsVars, iterVars,
      mappingVars, runVars, targetDirVars>>

NextMerge == Merge
SpecMerge == InitMerge /\ [][NextMerge]_vars

-----------------------------------------------------------------------------
(* Claims about BundleSettings::merge.                                     *)

\* C1: merge identity -- for every configuration X, merge(X, empty) = X and
\* merge(empty, X) = X, where empty is the configuration with no field set.
MergeIdentity ==
    pc = "merged" =>
        /\ (other = Empty => merged = self)
        /\ (self = Empty => merged = other)

\* C2: merge precedence for scalar fields -- the result holds self's value
\* when self sets the field, and other's value unchanged when only other
\* sets it.
MergeScalarPrecedence ==
    pc = "merged" =>
        \A f \in ScalarFields :
            /\ (IsSet(self, f) => merged[f] = self[f])
            /\ (~IsSet(self, f) /\ IsSet(other, f) => merged[f] = other[f])

\* a merge has run in which both layers set one scalar field, to different
\* values, and a second scalar field is set by the lower layer alone
MergeScalarPrecedenceWitness ==
    /\ pc = "merged"
    /\ \E f \in ScalarFields :
          IsSet(self, f) /\ IsSet(other, f) /\ self[f] # other[f]
    /\ \E f \in ScalarFields : ~IsSet(self, f) /\ IsSet(other, f)

\* C3: list override-not-append for resources -- when both layers hold
\* non-empty, different resources_mapping lists, the result's list is
\* self's list exactly.
ResourcesOverrideNotAppend ==
    (/\ pc = "merged"
     /\ self.resources_mapping # <<>>
     /\ other.resources_mapping # <<>>
     /\ self.resources_mapping # other.resources_mapping)
        => merged.resources_mapping = self.resources_mapping

\* a merge has run on two non-empty, different resource lists, one of them
\* holding an entry the other lacks
ResourcesOverrideNotAppendWitness ==
    /\ pc = "merged"
    /\ self.resources_mapping # <<>>
    /\ other.resources_mapping # <<>>
    /\ self.resources_mapping # other.resources_mapping
    /\ \E i \in DOMAIN other.resources_mapping :
          \A j \in DOMAIN self.resources_mapping :
              other.resources_mapping[i] # self.resources_mapping[j]

\* C4: override-map union -- for each of targets, bin and example the
\* result's key set is the union of both key sets, and on a key held by both
\* layers the result holds self's entry.
MapUnionSelfWins ==
    pc = "merged" =>
        \A m \in MapFields :
            /\ DOMAIN merged[m] = DOMAIN self[m] \cup DOMAIN other[m]
            /\ \A k \in DOMAIN self[m] \cap DOMAIN other[m] :
                  merged[m][k] = self[m][k]

\* C12: list-field merge rule -- for every list-valued field (icon,
\* resources_mapping, linux_mime_types, deb_depends, osx_frameworks) the
\* result of self.merge(other) holds self's list when that list is non-empty
\* and other's list otherwise.
ListFieldRule ==
    pc = "merged" =>
        \A f \in ListFields :
            merged[f] = IF self[f] # <<>> THEN self[f] ELSE other[f]

-----------------------------------------------------------------------------
(* The configuration document: package.metadata["bundle"].                 *)

\* A JSON table is a function from the keys it holds to their values.
\* serde_json::from_value::<BundleSettings>: a missing key takes the field's
\* default, a present value of an Option field becomes Some(value), the
\* values of targets / bin / example are deserialized as BundleSettings in
\* turn, and a value of the wrong shape is an error.
RECURSIVE from_table(_)
from_table(t) ==
    [f \in Fields |->
        IF f \notin DOMAIN t THEN Empty[f]
        ELSE IF f \in MapFields
            THEN [k \in DOMAIN t[f] |-> from_table(t[f][k])]
        ELSE IF f \in ListFields \cup {"name"} THEN t[f]
        ELSE Some(t[f])]

Ok(v) == [ok |-> TRUE, val |-> v]
Err == [ok |-> FALSE, val |-> <<>>]

from_value(json) == IF json.valid THEN Ok(from_table(json.table)) ELSE Err

\* the version a bundle section may declare, and the package's own version
BundleVersion == "2.0"
PackageVersion == "1.0"

NameTables == {<<>>} \cup {"name" :> s : s \in Strs}
VersionTables == {<<>>, "version" :> BundleVersion}
SectionTables == {n @@ v : n \in NameTables, v \in VersionTables}
OverrideTables(field, key) ==
    {<<>>} \cup {field :> (key :> t) : t \in SectionTables}
DocTables ==
    {n @@ v @@ t @@ b @@ e :
        n \in NameTables, v \in VersionTables,
        t \in OverrideTables("targets", "deb"),
        b \in OverrideTables("bin", "foo"),
        e \in OverrideTables("example", "baz")}

\* package.metadata.get("bundle"): absent, of the wrong shape, or a table
BundleValues ==
    {None, Some([valid |-> FALSE, table |-> <<>>])}
    \cup {Some([valid |-> TRUE, table |-> t]) : t \in DocTables}

-----------------------------------------------------------------------------
(* Resolution: Settings::new and BundleTargetInfo::get_bundle_settings.    *)

\* common::print_warning: the message reaches the terminal and the call
\* returns Ok
print_warning(w, msg) == Append(w, msg)

\* BuildArtifact
Main == [kind |-> "Main", name |-> ""]
Bin(n) == [kind |-> "Bin", name |-> n]
Example(n) == [kind |-> "Example", name |-> n]

\* what bundle_settings_of_package, bundle_settings_from_table and
\* get_bundle_settings hand back: a Result, and the warnings printed
Outcome(r, w) == [result |-> r, warnings |-> w]

\* bundle_settings_of_package(package)
bundle_settings_of_package(p, w) ==
    IF p.metadata_bundle # None
        THEN Outcome(from_value(p.metadata_bundle[1]), w)
        ELSE Outcome(Ok(Empty), print_warning(w, <<"bundle">>))

\* bundle_settings_from_table(opt_map, map_name, bundle_name)
bundle_settings_from_table_silent(map, map_name, bundle_name, w) ==
    IF bundle_name \in DOMAIN map
        THEN Outcome(Ok(map[bundle_name]), w)
        ELSE Outcome(Ok(Empty), w)
bundle_settings_from_table(map, map_name, bundle_name, w) ==
    IF bundle_name \in DOMAIN map
        THEN Outcome(Ok(map[bundle_name]), w)
        ELSE Outcome(Ok(Empty),
                     print_warning(w, <<"bundle", map_name, bundle_name>>))

\* `self.package.targets.iter().find(|t| t.kind.contains(&TargetKind::Bin))`
BinTargets(p) == {i \in DOMAIN p.targets : p.targets[i].kind = "bin"}
FirstBinTarget(p) ==
    p.targets[CHOOSE i \in BinTargets(p) : \A j \in BinTargets(p) : i <= j]

\* BundleTargetInfo::get_bundle_settings(&self, build_artifact): the pair
\* (BundleSettings, String), or a panic (result.ok = FALSE).  The packaging
\* format takes no part in it.
get_bundle_settings(p, build_artifact, w) ==
    LET of_package == bundle_settings_of_package(p, w) IN
    IF ~of_package.result.ok THEN Outcome(Err, of_package.warnings)
    ELSE
        LET bundle_settings == of_package.result.val
            w1 == of_package.warnings
        IN  CASE build_artifact.kind = "Main" ->
                    IF BinTargets(p) # {}
                        THEN Outcome(Ok(<<bundle_settings,
                                          FirstBinTarget(p).name>>), w1)
                        ELSE Outcome(Err, w1)
              [] build_artifact.kind = "Bin" ->
                    LET t == bundle_settings_from_table(
                                 bundle_settings.bin, "bin",
                                 build_artifact.name, w1)
                    IN  Outcome(Ok(<<t.result.val, build_artifact.name>>),
                                t.warnings)
              [] build_artifact.kind = "Example" ->
                    LET t == bundle_settings_from_table(
                                 bundle_settings.example, "example",
                                 build_artifact.name, w1)
                    IN  Outcome(Ok(<<t.result.val, build_artifact.name>>),
                                t.warnings)

\* the build_artifact chosen by Settings::new from the command line
BuildArtifactOf(c) ==
    IF c.bin # None THEN Bin(c.bin[1])
    ELSE IF c.example # None THEN Example(c.example[1])
    ELSE Main

\* Settings::new(bundle_info, cli)
Settings_new(p, c, w) ==
    LET build_artifact == BuildArtifactOf(c)
        got == get_bundle_settings(p, build_artifact, w)
    IN  IF ~got.result.ok THEN Outcome(Err, got.warnings)
        ELSE
            LET bundle_settings == got.result.val[1]
                bundle_name == got.result.val[2]
                binary_name == IF bundle_name = "" THEN p.name
                                                   ELSE bundle_name
            IN  Outcome(Ok([package |-> p,
                            build_artifact |-> build_artifact,
                            bundle_settings |-> bundle_settings,
                            binary_name |-> binary_name]),
                        got.warnings)

\* Settings::bundle_name
bundle_name(s) ==
    IF s.bundle_settings.name = "" THEN s.binary_name
                                   ELSE s.bundle_settings.name

\* Settings::version_string
version_string(s) ==
    IF s.bundle_settings.version # None THEN s.bundle_settings.version[1]
                                        ELSE s.package.version

-----------------------------------------------------------------------------
(* The resolution specification: a package, a command line and a format    *)
(* are drawn, then Settings::new runs.                                     *)

LibTarget == [name |-> "pkg", kind |-> "lib"]
BinTarget(n) == [name |-> n, kind |-> "bin"]
PackageTargets ==
    {<<LibTarget>>, <<LibTarget, BinTarget("app"), BinTarget("foo")>>}

Packages ==
    [name : {"pkg"}, version : {PackageVersion}, targets : PackageTargets,
     metadata_bundle : BundleValues]

\* --bin and --example conflict, so at most one of them is given
Clis ==
    {[bin |-> None, example |-> None]}
    \cup {[bin |-> Some(n), example |-> None] : n \in {"foo", "bar", ""}}
    \cup {[bin |-> None, example |-> Some(n)] : n \in {"baz", "qux"}}

PackageTypes == {"deb", "osx"}

InitResolve ==
    /\ pc = "new"
    /\ package \in Packages
    /\ cli \in Clis
    /\ package_type \in PackageTypes
    /\ settings = None
    /\ warnings = <<>>
    /\ IdleMerge
    /\ IdleWorkspace
    /\ IdleFs
    /\ IdleIter
    /\ IdleMapping
    /\ IdleRun
    /\ IdleTargetDir

\* Settings::new returns
SettingsNew ==
    /\ pc = "new"
    /\ LET r == Settings_new(package, cli, warnings) IN
        /\ r.result.ok
        /\ settings' = Some(r.result.val)
        /\ warnings' = r.warnings
    /\ pc' = "settled"
    /\ UNCHANGED <<package, cli, package_type>>
    /\ UNCHANGED <<mergeVars, workspaceVars, fsVars, iterVars, mappingVars>>
    /\ UNCHANGED <<runVars, targetDirVars>>

\* Settings::new panics: the document does not deserialize, or the primary
\* binary is asked for and the package declares no bin target
SettingsNewPanics ==
    /\ pc = "new"
    /\ LET r == Settings_new(package, cli, warnings) IN
        /\ ~r.result.ok
        /\ warnings' = r.warnings
    /\ pc' = "panicked"
    /\ UNCHANGED <<package, cli, package_type, settings>>
    /\ UNCHANGED <<mergeVars, workspaceVars, fsVars, iterVars, mappingVars>>
    /\ UNCHANGED <<runVars, targetDirVars>>

NextResolve == SettingsNew \/ SettingsNewPanics
SpecResolve == InitResolve /\ [][NextResolve]_vars

-----------------------------------------------------------------------------
(* Claims about resolution.                                                *)

\* the deserialized package-wide document of a valid bundle section
PackageConfig == from_table(package.metadata_bundle[1].table)
HasValidBundle ==
    package.metadata_bundle # None /\ package.metadata_bundle[1].valid
Resolved == settings[1]

\* C5: format override end-to-end -- with package-level name "App", a
\* targets.deb section naming "AppDeb" and the primary-binary artifact, the
\* effective bundle name is "AppDeb" for format deb and "App" for format osx.
FormatOverrideEndToEnd ==
    (/\ pc = "settled"
     /\ HasValidBundle
     /\ PackageConfig.name = "App"
     /\ "deb" \in DOMAIN PackageConfig.targets
     /\ PackageConfig.targets["deb"].name = "AppDeb"
     /\ Resolved.build_artifact = Main)
        => /\ (package_type = "deb" => bundle_name(Resolved) = "AppDeb")
           /\ (package_type = "osx" => bundle_name(Resolved) = "App")

\* the section of the document that overrides the named artifact, if any
ArtifactMap ==
    IF Resolved.build_artifact.kind = "Bin" THEN PackageConfig.bin
                                            ELSE PackageConfig.example
HasArtifactSection ==
    /\ Resolved.build_artifact.kind \in {"Bin", "Example"}
    /\ Resolved.build_artifact.name \in DOMAIN ArtifactMap
ArtifactSection == ArtifactMap[Resolved.build_artifact.name]

\* C6: named-artifact override -- when a bin[name] (example[name]) section
\* exists for the named artifact, the effective configuration is the section
\* merged over the package-wide one: the section's set fields win and the
\* fields it leaves unset keep the package-wide value.  (Stated where no
\* targets section exists for the format, so that the package-wide value is
\* the document's own.)
NamedArtifactOverride ==
    (/\ pc = "settled"
     /\ HasValidBundle
     /\ HasArtifactSection
     /\ package_type \notin DOMAIN PackageConfig.targets)
        => \A f \in ScalarFields :
              Resolved.bundle_settings[f] =
                  IF IsSet(ArtifactSection, f) THEN ArtifactSection[f]
                                               ELSE PackageConfig[f]

\* the primary binary can be resolved only when a bin target is declared
ArtifactResolvable ==
    BuildArtifactOf(cli) = Main => BinTargets(package) # {}

\* C7: no bundle section end-to-end -- without a metadata.bundle section,
\* resolution succeeds for every artifact kind, the effective bundle name is
\* the resolved binary / example name, the effective version is the package
\* version, and exactly one warning is emitted.
NoBundleSectionOneWarning ==
    (pc # "new" /\ package.metadata_bundle = None /\ ArtifactResolvable)
        => /\ pc = "settled"
           /\ bundle_name(Resolved) = Resolved.binary_name
           /\ version_string(Resolved) = package.version
           /\ Len(warnings) = 1

\* C7 as amended: the warning count is one for the primary binary and two
\* for a named binary or example (the missing bundle section, then the
\* missing bin / example section).
NoBundleSectionWarnings ==
    (pc # "new" /\ package.metadata_bundle = None /\ ArtifactResolvable)
        => /\ pc = "settled"
           /\ bundle_name(Resolved) = Resolved.binary_name
           /\ Resolved.binary_name =
                  (CASE Resolved.build_artifact = Main ->
                            FirstBinTarget(package).name
                     [] Resolved.build_artifact.name = "" -> package.name
                     [] OTHER -> Resolved.build_artifact.name)
           /\ version_string(Resolved) = package.version
           /\ warnings[1] = <<"bundle">>
           /\ Len(warnings) =
                  IF Resolved.build_artifact = Main THEN 1 ELSE 2

\* a named binary has been resolved for a package without a bundle section
NoBundleSectionWarningsWitness ==
    /\ pc = "settled"
    /\ package.metadata_bundle = None
    /\ Resolved.build_artifact = Bin("foo")
    /\ Len(warnings) = 2

\* the package-wide document resolution starts from: the bundle section, or
\* the default when the package has none
DocumentConfig == IF HasValidBundle THEN PackageConfig ELSE Empty

\* a warning about the missing section map_name.key has been printed
Warned(map_name, key) ==
    \E k \in DOMAIN warnings : warnings[k] = <<"bundle", map_name, key>>

\* C15: missing-override warnings -- whenever resolution runs for a
\* packaging format with no targets[format] section, or for a named binary
\* or example with no bin[name] / example[name] section, a warning is
\* emitted for that missing section and resolution still completes.
MissingOverrideWarnings ==
    (/\ pc # "new"
     /\ package.metadata_bundle = None \/ HasValidBundle
     /\ ArtifactResolvable)
        => /\ pc = "settled"
           /\ package_type \notin DOMAIN DocumentConfig.targets
                  => Warned("targets", package_type)
           /\ (/\ BuildArtifactOf(cli).kind = "Bin"
               /\ BuildArtifactOf(cli).name \notin DOMAIN DocumentConfig.bin)
                  => Warned("bin", BuildArtifactOf(cli).name)
           /\ (/\ BuildArtifactOf(cli).kind = "Example"
               /\ BuildArtifactOf(cli).name
                      \notin DOMAIN DocumentConfig.example)
                  => Warned("example", BuildArtifactOf(cli).name)

-----------------------------------------------------------------------------
(* Workspace discovery: get_workspace_dir.                                 *)

\* An absolute directory is the sequence of its components below the
\* filesystem root; the root is <<>>.
DirNames == {"a", "b"}
Dirs == UNION {[1..n -> DirNames] : n \in 0..MaxDepth}

\* the ancestors of d, d itself included
Ancestors(d) == {SubSeq(d, 1, n) : n \in 0..Len(d)}

\* Path::parent
parent(d) == IF d = <<>> THEN None ELSE Some(SubSeq(d, 1, Len(d) - 1))

\* PathBuf::pop: truncates to the parent and returns true, or returns false
\* and leaves the path alone when there is no parent
pop(d) ==
    IF parent(d) = None THEN [popped |-> FALSE, dir |-> d]
                        ELSE [popped |-> TRUE, dir |-> parent(d)[1]]

\* load_metadata(dir).is_ok()
load_metadata_is_ok(d) == d \in manifests

InitWorkspace ==
    /\ pc = "ws_start"
    /\ current_dir \in Dirs
    /\ dir = current_dir
    /\ manifests \in SUBSET Ancestors(current_dir)
    /\ probed = <<>>
    /\ workspace_dir = None
    /\ IdleMerge
    /\ IdleResolve
    /\ IdleFs
    /\ IdleIter
    /\ IdleMapping
    /\ IdleRun
    /\ IdleTargetDir

\* the probe of the starting directory finds a manifest
WsStartFound ==
    /\ pc = "ws_start"
    /\ load_metadata_is_ok(dir)
    /\ probed' = Append(probed, dir)
    /\ workspace_dir' = Some(dir)
    /\ pc' = "ws_done"
    /\ UNCHANGED <<current_dir, dir, manifests>>
    /\ UNCHANGED <<mergeVars, resolveVars, fsVars, iterVars, mappingVars>>
    /\ UNCHANGED <<runVars, targetDirVars>>

\* the probe of the starting directory fails: enter the loop
WsStartMissed ==
    /\ pc = "ws_start"
    /\ ~load_metadata_is_ok(dir)
    /\ probed' = Append(probed, dir)
    /\ pc' = "ws_loop"
    /\ UNCHANGED <<current_dir, dir, manifests, workspace_dir>>
    /\ UNCHANGED <<mergeVars, resolveVars, fsVars, iterVars, mappingVars>>
    /\ UNCHANGED <<runVars, targetDirVars>>

\* `while dir.pop()`: one step up, and the probe there finds a manifest
WsPopFound ==
    /\ pc = "ws_loop"
    /\ pop(dir).popped
    /\ dir' = pop(dir).dir
    /\ load_metadata_is_ok(dir')
    /\ probed' = Append(probed, dir')
    /\ workspace_dir' = Some(dir')
    /\ pc' = "ws_done"
    /\ UNCHANGED <<current_dir, manifests>>
    /\ UNCHANGED <<mergeVars, resolveVars, fsVars, iterVars, mappingVars>>
    /\ UNCHANGED <<runVars, targetDirVars>>

\* `while dir.pop()`: one step up, and the probe there fails
WsPopMissed ==
    /\ pc = "ws_loop"
    /\ pop(dir).popped
    /\ dir' = pop(dir).dir
    /\ ~load_metadata_is_ok(dir')
    /\ probed' = Append(probed, dir')
    /\ pc' = "ws_loop"
    /\ UNCHANGED <<current_dir, manifests, workspace_dir>>
    /\ UNCHANGED <<mergeVars, resolveVars, fsVars, iterVars, mappingVars>>
    /\ UNCHANGED <<runVars, targetDirVars>>

\* what get_workspace_dir returns once dir.pop() is false
NothingFound_last_dir == dir
NothingFound == current_dir

\* dir.pop() returns false at the filesystem root: nothing was found
WsExhausted ==
    /\ pc = "ws_loop"
    /\ ~pop(dir).popped
    /\ workspace_dir' = Some(NothingFound)
    /\ pc' = "ws_done"
    /\ UNCHANGED <<current_dir, dir, manifests, probed>>
    /\ UNCHANGED <<mergeVars, resolveVars, fsVars, iterVars, mappingVars>>
    /\ UNCHANGED <<runVars, targetDirVars>>

NextWorkspace ==
    \/ WsStartFound
    \/ WsStartMissed
    \/ WsPopFound
    \/ WsPopMissed
    \/ WsExhausted
SpecWorkspace == InitWorkspace /\ [][NextWorkspace]_vars
\* get_workspace_dir runs on the only thread and is never suspended
FairSpecWorkspace == SpecWorkspace /\ WF_vars(NextWorkspace)

-----------------------------------------------------------------------------
(* Claims about workspace discovery.                                       *)

LoadableAncestors == Ancestors(current_dir) \cap manifests
\* the nearest ancestor of the start (itself included) with a manifest
NearestLoadable ==
    CHOOSE d \in LoadableAncestors :
        \A e \in LoadableAncestors : Len(e) <= Len(d)

\* the probes go from the start upward, one directory at a time, each
\* directory once, and none follows a successful one
ProbesUpwardOnce ==
    /\ \A i \in DOMAIN probed :
          probed[i] = SubSeq(current_dir, 1, Len(current_dir) - (i - 1))
    /\ Len(probed) <= Len(current_dir) + 1
    /\ \A i \in DOMAIN probed : i < Len(probed) => probed[i] \notin manifests

WorkspaceDirCorrect ==
    pc = "ws_done" =>
        workspace_dir =
            IF LoadableAncestors # {} THEN Some(NearestLoadable)
                                      ELSE Some(current_dir)

\* C8: workspace discovery -- get_workspace_dir terminates, probes each
\* directory once from the start upward and stops at the first success,
\* returns the nearest ancestor (the start included) whose manifest loads,
\* and returns the starting directory when no ancestor up to the root has
\* a loadable manifest.
WorkspaceDiscovery ==
    /\ [](ProbesUpwardOnce /\ WorkspaceDirCorrect)
    /\ <>(pc = "ws_done")

\* the search has walked from a start of depth two or more to the root
\* without finding a manifest and returned the start
WorkspaceDiscoveryWitness ==
    /\ pc = "ws_done"
    /\ Len(current_dir) >= 2
    /\ LoadableAncestors = {}
    /\ Len(probed) = Len(current_dir) + 1
    /\ workspace_dir = Some(current_dir)

-----------------------------------------------------------------------------
(* The filesystem seen by resource expansion.                              *)

\* A relative path is the sequence of its components.  Every entry that may
\* exist, in the order glob and walkdir report entries (a directory before
\* its contents, siblings alphabetically).
AllEntries ==
    << <<"build">>,
       <<"build", "data.bin">>,
       <<"build", "static">>,
       <<"build", "static", "b.txt">>,
       <<"build", "static", "img">>,
       <<"build", "static", "img", "a.png">>,
       <<"icon.png">> >>

DirPaths ==
    {<<"build">>, <<"build", "static">>, <<"build", "static", "img">>}
CandidateFiles == {AllEntries[i] : i \in DOMAIN AllEntries} \ DirPaths

\* Path::exists, Path::is_dir
exists(p) == p \in DirPaths \/ p \in files
is_dir(p) == p \in DirPaths

IsPrefix(a, b) == Len(a) <= Len(b) /\ SubSeq(b, 1, Len(a)) = a

\* the items of the iterators: Ok(path) or Err(error)
OkItem(p) == [ok |-> TRUE, path |-> p, error |-> ""]
ErrItem(e, p) == [ok |-> FALSE, path |-> p, error |-> e]

\* a pattern is the sequence of its '/'-separated components
StarComponents == {"*"}
WildcardComponents == StarComponents \cup {"im?"}
MalformedComponents == {"["}

\* glob::Pattern::matches on one component
ComponentMatches(c, name) ==
    CASE c = "*" -> TRUE
      [] c = "im?" -> name = "img"
      [] OTHER -> c = name

\* the entry e is a full match of pattern pat
Matches(pat, e) ==
    /\ Len(e) = Len(pat)
    /\ \A i \in 1..Len(e) : ComponentMatches(pat[i], e[i])

\* glob lists a directory only to match a wildcard component under it; the
\* directories above e that are listed on the way to e
ListedAbove(pat, e) ==
    {SubSeq(e, 1, i - 1) : i \in {j \in 1..Len(e) : pat[j] \in WildcardComponents}}

\* glob::glob(pattern): Err for a malformed pattern, else the matches in
\* order, with an Err item for each directory that had to be listed and
\* cannot be
RECURSIVE glob_from(_, _)
glob_from(pat, i) ==
    IF i > Len(AllEntries) THEN <<>>
    ELSE
        LET e == AllEntries[i]
            reached ==
                /\ exists(e)
                /\ Len(e) <= Len(pat)
                /\ Matches(SubSeq(pat, 1, Len(e)), e)
                /\ ListedAbove(pat, e) \cap unreadable = {}
            item ==
                IF reached /\ Len(e) = Len(pat) THEN <<OkItem(e)>>
                ELSE IF /\ reached
                        /\ e \in unreadable
                        /\ pat[Len(e) + 1] \in WildcardComponents
                    THEN <<ErrItem("glob", e)>>
                ELSE <<>>
        IN  item \o glob_from(pat, i + 1)

glob(pat) ==
    IF \E i \in DOMAIN pat : pat[i] \in MalformedComponents
        THEN Err
        ELSE Ok(glob_from(pat, 1))

\* walkdir::WalkDir::new(root).into_iter(): root itself, then everything
\* below it depth-first; a directory that cannot be listed is followed by
\* an Err entry and its contents are not visited
RECURSIVE walk_from(_, _)
walk_from(root, i) ==
    IF i > Len(AllEntries) THEN <<>>
    ELSE
        LET e == AllEntries[i]
            visited ==
                /\ exists(e)
                /\ IsPrefix(root, e)
                /\ \A n \in Len(root)..(Len(e) - 1) :
                      SubSeq(e, 1, n) \notin unreadable
            item ==
                IF ~visited THEN <<>>
                ELSE IF e \in unreadable
                    THEN <<OkItem(e), ErrItem("walk", e)>>
                ELSE <<OkItem(e)>>
        IN  item \o walk_from(root, i + 1)

walk(root) == walk_from(root, 1)

-----------------------------------------------------------------------------
(* ResourcePaths: the lazy expansion of a pattern list.                    *)

\* ResourcePaths::new(patterns, allow_walk)
ResourcePaths_new(pats, allow_walk) ==
    [pattern_iter |-> pats, glob_iter |-> None, walk_iter |-> None,
     allow_walk |-> allow_walk]

\* one pass through the body of `loop`: `return item` or `continue`
Return(item, r) == [returns |-> TRUE, item |-> item, rp |-> r]
Continue(r) == [returns |-> FALSE, item |-> None, rp |-> r]

\* the walk iterator has an entry
WalkStage_keeps_directories(r) ==
    LET entry == Head(r.walk_iter[1])
        r1 == [r EXCEPT !.walk_iter = Some(Tail(r.walk_iter[1]))]
    IN  IF ~entry.ok THEN Return(Some(entry), r1)
        ELSE Return(Some(OkItem(entry.path)), r1)
WalkStage(r) ==
    LET entry == Head(r.walk_iter[1])
        r1 == [r EXCEPT !.walk_iter = Some(Tail(r.walk_iter[1]))]
    IN  IF ~entry.ok THEN Return(Some(entry), r1)
        ELSE IF is_dir(entry.path) THEN Continue(r1)
        ELSE Return(Some(OkItem(entry.path)), r1)

\* a glob match is a directory
DirectoryMatch_skipped(r, path) ==
    IF r.allow_walk
        THEN Continue([r EXCEPT !.walk_iter = Some(walk(path))])
        ELSE Continue(r)
DirectoryMatch(r, path) ==
    IF r.allow_walk
        THEN Continue([r EXCEPT !.walk_iter = Some(walk(path))])
        ELSE Return(Some(ErrItem("is a directory", path)), r)

\* the glob iterator has a result
GlobStage(r) ==
    LET result == Head(r.glob_iter[1])
        r1 == [r EXCEPT !.glob_iter = Some(Tail(r.glob_iter[1]))]
    IN  IF ~result.ok THEN Return(Some(result), r1)
        ELSE IF is_dir(result.path) THEN DirectoryMatch(r1, result.path)
        ELSE Return(Some(OkItem(result.path)), r1)

\* neither has: take the next pattern, if any
PatternStage_skips_next(r) ==
    IF r.pattern_iter # <<>>
        THEN LET pattern == Head(r.pattern_iter)
                 r1 == [r EXCEPT !.pattern_iter =
                            SubSeq(r.pattern_iter, 3, Len(r.pattern_iter))]
                 g == glob(pattern)
             IN  IF ~g.ok THEN Return(Some(ErrItem("pattern", pattern)), r1)
                 ELSE Continue([r1 EXCEPT !.glob_iter = Some(g.val)])
        ELSE Return(None, r)
PatternStage(r) ==
    IF r.pattern_iter # <<>>
        THEN LET pattern == Head(r.pattern_iter)
                 r1 == [r EXCEPT !.pattern_iter = Tail(r.pattern_iter)]
                 g == glob(pattern)
             IN  IF ~g.ok THEN Return(Some(ErrItem("pattern", pattern)), r1)
                 ELSE Continue([r1 EXCEPT !.glob_iter = Some(g.val)])
        ELSE Return(None, r)

LoopBody(r) ==
    IF r.walk_iter # None /\ r.walk_iter[1] # <<>> THEN WalkStage(r)
    ELSE
        LET r1 == [r EXCEPT !.walk_iter = None] IN
        IF r1.glob_iter # None /\ r1.glob_iter[1] # <<>> THEN GlobStage(r1)
        ELSE PatternStage([r1 EXCEPT !.glob_iter = None])

\* <ResourcePaths as Iterator>::next: the item returned and the iterator
\* left behind
RECURSIVE next(_)
next(r) ==
    LET body == LoopBody(r) IN
    IF body.returns THEN [item |-> body.item, rp |-> body.rp]
                    ELSE next(body.rp)

-----------------------------------------------------------------------------
(* The iterator specification: a filesystem and a pattern list are drawn,  *)
(* then next() is called again and again.                                  *)

PatternPool ==
    { <<"icon.png">>, <<"missing">>, <<"[">>, <<"*">>,
      <<"build", "data.bin">>, <<"build", "static">>,
      <<"build", "static", "*">>, <<"build", "static", "im?">>,
      <<"build", "*", "*">> }
PatternLists == UNION {[1..n -> PatternPool] : n \in 0..MaxPatterns}

InitFs ==
    /\ files \in SUBSET CandidateFiles
    /\ unreadable \in SUBSET {<<"build", "static", "img">>}

\* Settings::icon_files and Settings::osx_info_plist_exts build the iterator
\* with allow_walk = false, Settings::resources_paths with allow_walk = true
InitResources ==
    /\ pc = "rp_iter"
    /\ InitFs
    /\ patterns \in PatternLists
    /\ \E allow_walk \in BOOLEAN : rp = ResourcePaths_new(patterns, allow_walk)
    /\ yielded = <<>>
    /\ IdleMerge
    /\ IdleResolve
    /\ IdleWorkspace
    /\ IdleMapping
    /\ IdleRun
    /\ IdleTargetDir

NoneCount == Cardinality({i \in DOMAIN yielded : yielded[i] = None})

\* a call of next() that returns Some(item)
RpNextSome ==
    /\ pc = "rp_iter"
    /\ NoneCount <= MaxExtraCalls
    /\ next(rp).item # None
    /\ rp' = next(rp).rp
    /\ yielded' = Append(yielded, next(rp).item)
    /\ UNCHANGED <<pc, patterns, fsVars>>
    /\ UNCHANGED <<mergeVars, resolveVars, workspaceVars, mappingVars>>
    /\ UNCHANGED <<runVars, targetDirVars>>

\* a call of next() that returns None
RpNextNone ==
    /\ pc = "rp_iter"
    /\ NoneCount <= MaxExtraCalls
    /\ next(rp).item = None
    /\ rp' = next(rp).rp
    /\ yielded' = Append(yielded, None)
    /\ UNCHANGED <<pc, patterns, fsVars>>
    /\ UNCHANGED <<mergeVars, resolveVars, workspaceVars, mappingVars>>
    /\ UNCHANGED <<runVars, targetDirVars>>

NextResources == RpNextSome \/ RpNextNone
SpecResources == InitResources /\ [][NextResources]_vars

-----------------------------------------------------------------------------
(* Claims about ResourcePaths.                                             *)

\* the items returned so far, without the None's
RECURSIVE ItemsOf(_)
ItemsOf(ys) ==
    IF ys = <<>> THEN <<>>
    ELSE IF Head(ys) = None THEN ItemsOf(Tail(ys))
    ELSE <<Head(ys)[1]>> \o ItemsOf(Tail(ys))

\* next() has returned None
Exhausted == NoneCount > 0

\* what one pattern owes when walking is disabled: its pattern error, or
\* one item per glob result: the file, the glob error, or "is a directory"
NoWalkItems(pat) ==
    LET g == glob(pat) IN
    IF ~g.ok THEN <<ErrItem("pattern", pat)>>
    ELSE [i \in DOMAIN g.val |->
            IF g.val[i].ok /\ is_dir(g.val[i].path)
                THEN ErrItem("is a directory", g.val[i].path)
                ELSE g.val[i]]

RECURSIVE NoWalkExpansion(_)
NoWalkExpansion(pats) ==
    IF pats = <<>> THEN <<>>
    ELSE NoWalkItems(Head(pats)) \o NoWalkExpansion(Tail(pats))

\* C9: directory with walking disabled -- with allow_walk = false every glob
\* match that is a directory produces an error item, and the iterator keeps
\* going: the remaining matches of the pattern and the later patterns are
\* still yielded by the following next() calls.
DirectoryErrorKeepsGoing ==
    (pc = "rp_iter" /\ ~rp.allow_walk) =>
        /\ IsPrefix(ItemsOf(yielded), NoWalkExpansion(patterns))
        /\ (Exhausted => ItemsOf(yielded) = NoWalkExpansion(patterns))

\* with walking disabled, a directory error has been followed by a file of
\* the same pattern and by a file of a later pattern
DirectoryErrorKeepsGoingWitness ==
    /\ pc = "rp_iter"
    /\ ~rp.allow_walk
    /\ Exhausted
    /\ patterns = << <<"build", "static", "*">>, <<"icon.png">> >>
    /\ ItemsOf(yielded) =
          << OkItem(<<"build", "static", "b.txt">>),
             ErrItem("is a directory", <<"build", "static", "img">>),
             OkItem(<<"icon.png">>) >>

\* the Ok results of the globs of the pattern list that are directories
DirectoryMatches ==
    UNION {{g.val[i].path : i \in {j \in DOMAIN g.val :
                                     g.val[j].ok /\ is_dir(g.val[j].path)}}
           : g \in {glob(patterns[n]) : n \in {m \in DOMAIN patterns :
                                                 glob(patterns[m]).ok}}}

\* the files below directory d that a walk of d gets to
WalkedFiles(d) ==
    {f \in files :
        /\ IsPrefix(d, f)
        /\ \A n \in Len(d)..(Len(f) - 1) : SubSeq(f, 1, n) \notin unreadable}

\* the items yielded so far, as a set
YieldedItems == {ItemsOf(yielded)[k] : k \in DOMAIN ItemsOf(yielded)}

\* C14: no directory is ever resolved as a source -- for any pattern list,
\* any filesystem and either value of allow_walk, every Ok item yielded by
\* next() is an existing path that is not a directory; once the iterator is
\* exhausted, a matched directory has been replaced by the non-directory
\* entries below it (walk allowed) or reported as an error (walk
\* disallowed).
NoDirectoryAsSource ==
    pc = "rp_iter" =>
        /\ \A item \in YieldedItems :
              item.ok => exists(item.path) /\ ~is_dir(item.path)
        /\ Exhausted =>
              \A d \in DirectoryMatches :
                  IF rp.allow_walk
                      THEN \A f \in WalkedFiles(d) : OkItem(f) \in YieldedItems
                      ELSE ErrItem("is a directory", d) \in YieldedItems

\* with walking allowed, the directory build/static was matched and has
\* been replaced by the two files below it, one of them in a sub-directory
NoDirectoryAsSourceWitness ==
    /\ pc = "rp_iter"
    /\ rp.allow_walk
    /\ Exhausted
    /\ patterns = << <<"build", "static">> >>
    /\ ItemsOf(yielded) =
          << OkItem(<<"build", "static", "b.txt">>),
             OkItem(<<"build", "static", "img", "a.png">>) >>

\* what a walk of directory d owes: its errors and its non-directories
WalkItems(d) ==
    SelectSeq(walk(d), LAMBDA e : ~e.ok \/ ~is_dir(e.path))

RECURSIVE GlobItems(_, _)
GlobItems(results, allow_walk) ==
    IF results = <<>> THEN <<>>
    ELSE LET g == Head(results) IN
         (IF g.ok /\ is_dir(g.path)
             THEN (IF allow_walk THEN WalkItems(g.path)
                                 ELSE <<ErrItem("is a directory", g.path)>>)
             ELSE <<g>>)
         \o GlobItems(Tail(results), allow_walk)

\* what the pattern list owes when each pattern is taken once, in order
RECURSIVE Expansion(_, _)
Expansion(pats, allow_walk) ==
    IF pats = <<>> THEN <<>>
    ELSE (IF glob(Head(pats)).ok
             THEN GlobItems(glob(Head(pats)).val, allow_walk)
             ELSE <<ErrItem("pattern", Head(pats))>>)
         \o Expansion(Tail(pats), allow_walk)

\* C18: expansion terminates and stays exhausted -- the items are those of
\* the patterns taken once each in input order, so there are finitely many:
\* every call of next() returns the next item owed, and None once all of
\* them have been returned; a finished walk or glob source is dropped and
\* not visited again, and every call after the first None returns None too.
TerminatesAndStaysExhausted ==
    [][LET owed == Expansion(patterns, rp.allow_walk)
           n == Len(ItemsOf(yielded))
       IN  /\ IsPrefix(ItemsOf(yielded), owed)
           /\ yielded' =
                  Append(yielded,
                         IF n < Len(owed) /\ ~Exhausted
                             THEN Some(owed[n + 1]) ELSE None)
           /\ \E m \in 0..Len(patterns) :
                  rp'.pattern_iter = SubSeq(patterns, m + 1, Len(patterns))
           /\ Exhausted' =>
                  /\ rp'.pattern_iter = <<>>
                  /\ rp'.glob_iter = None
                  /\ rp'.walk_iter = None]_vars

\* two patterns have yielded one file each, then next() has returned None
\* on every further call
TerminatesAndStaysExhaustedWitness ==
    /\ pc = "rp_iter"
    /\ patterns = << <<"icon.png">>, <<"build", "data.bin">> >>
    /\ yielded =
          << Some(OkItem(<<"icon.png">>)),
             Some(OkItem(<<"build", "data.bin">>)) >>
          \o [i \in 1..(MaxExtraCalls + 1) |-> None]

-----------------------------------------------------------------------------
(* Settings::resources_paths: resource mappings to (source, destination).  *)

\* Path::join of two relative paths
join(a, b) == a \o b

\* Path::strip_prefix
strip_prefix(p, base) ==
    IF IsPrefix(base, p) THEN Ok(SubSeq(p, Len(base) + 1, Len(p))) ELSE Err

\* `Path::new(src.file_name().unwrap_or_default())`
file_name(p) == IF p = <<>> THEN <<>> ELSE <<p[Len(p)]>>

\* `base_src.contains('*')`
contains_star(pat) == \E i \in DOMAIN pat : pat[i] \in StarComponents

\* the base directory of a mapping's pattern
base_dir(pat) ==
    IF contains_star(pat)
        THEN IF parent(pat) # None THEN parent(pat)[1] ELSE <<>>
        ELSE pat

\* the path of src below base_dir, or only its file name
relative_path_file_name(src, base) == file_name(src)
relative_path(src, base) ==
    IF strip_prefix(src, base).ok THEN strip_prefix(src, base).val
                                  ELSE file_name(src)

\* common::resource_relpath of a relative path without `..` components
resource_relpath(src) == src

\* the destination of one resolved source file
destination(src, base, dst, output_base) ==
    IF dst = <<>>
        THEN join(output_base, resource_relpath(src))
        ELSE join(join(output_base, dst), relative_path(src, base))

\* `for source_path in ResourcePaths::new(&[base_src.clone()], true)`: the
\* pairs pushed while the iterator is drained; Err items are passed over
RECURSIVE drain(_, _, _, _)
drain(r, base, dst, output_base) ==
    LET n == next(r) IN
    IF n.item = None THEN <<>>
    ELSE (IF n.item[1].ok
            THEN << <<n.item[1].path,
                      destination(n.item[1].path, base, dst, output_base)>> >>
            ELSE <<>>)
         \o drain(n.rp, base, dst, output_base)

\* the body of `for (base_src, dst) in &self.bundle_settings.resources_mapping`
mapping_pairs(base_src, dst, output_base) ==
    drain(ResourcePaths_new(<<base_src>>, TRUE), base_dir(base_src), dst,
          output_base)

OutputBase == <<"out">>
DstPool == {<<>>, <<"assets">>}
MappingLists ==
    UNION {[1..n -> PatternPool \X DstPool] : n \in 0..MaxMappings}

InitMapping ==
    /\ pc = "rm_loop"
    /\ InitFs
    /\ resources_mapping \in MappingLists
    /\ mapping_index = 0
    /\ output = <<>>
    /\ IdleMerge
    /\ IdleResolve
    /\ IdleWorkspace
    /\ IdleIter
    /\ IdleRun
    /\ IdleTargetDir

\* one iteration of the outer loop of resources_paths
MappingStep ==
    /\ pc = "rm_loop"
    /\ mapping_index < Len(resources_mapping)
    /\ LET m == resources_mapping[mapping_index + 1] IN
          output' = output \o mapping_pairs(m[1], m[2], OutputBase)
    /\ mapping_index' = mapping_index + 1
    /\ UNCHANGED <<pc, resources_mapping, fsVars>>
    /\ UNCHANGED <<mergeVars, resolveVars, workspaceVars, iterVars>>
    /\ UNCHANGED <<runVars, targetDirVars>>

\* the loop is over: resources_paths returns output
MappingReturn ==
    /\ pc = "rm_loop"
    /\ mapping_index = Len(resources_mapping)
    /\ pc' = "rm_done"
    /\ UNCHANGED <<mappingVars, fsVars>>
    /\ UNCHANGED <<mergeVars, resolveVars, workspaceVars, iterVars>>
    /\ UNCHANGED <<runVars, targetDirVars>>

NextMapping == MappingStep \/ MappingReturn
SpecMapping == InitMapping /\ [][NextMapping]_vars

-----------------------------------------------------------------------------
(* Claims about resources_paths.                                           *)

\* the mapping that the next iteration of the loop handles
CurrentMapping == resources_mapping[mapping_index + 1]
HasWildcard(pat) == \E i \in DOMAIN pat : pat[i] \in WildcardComponents
PatternParent(pat) == IF pat = <<>> THEN <<>> ELSE SubSeq(pat, 1, Len(pat) - 1)
\* the pairs pushed by the step
Pushed == {output'[k] : k \in (Len(output) + 1)..Len(output')}

DestinationKeepsFileName ==
    [][(/\ mapping_index' = mapping_index + 1
        /\ CurrentMapping[2] # <<>>)
          => \A pair \in Pushed :
                /\ pair[2][Len(pair[2])] = pair[1][Len(pair[1])]
                /\ pair[2] # OutputBase \o CurrentMapping[2]]_vars

\* every item, Ok or Err, that the iterator yields until it returns None
RECURSIVE remaining_items(_)
remaining_items(r) ==
    LET n == next(r) IN
    IF n.item = None THEN <<>> ELSE <<n.item[1]>> \o remaining_items(n.rp)

\* the items that expanding the pattern of mapping i yields
ExpansionOf(i) ==
    remaining_items(ResourcePaths_new(<<resources_mapping[i][1]>>, TRUE))

\* C13: resource expansion errors are fatal to the mapping expansion --
\* resources_paths does not return a resource list when expanding one of
\* the patterns yielded an error item (malformed glob, unreadable glob
\* match, directory-walk error): whenever it has returned its list, no
\* item of any expansion was an error.
ExpansionErrorsAreFatal ==
    pc = "rm_done" =>
        \A i \in DOMAIN resources_mapping :
            \A k \in DOMAIN ExpansionOf(i) : ExpansionOf(i)[k].ok

-----------------------------------------------------------------------------
(* The run loop: main.rs run() takes the package types of the invocation   *)
(* one after the other; bundle::bundle_project does the same for a list    *)
(* it is given.  Whether a step succeeds is the environment's choice.      *)

\* longest package type list given to bundle::bundle_project
MaxFormats == 2

\* PackageType::all
AllShortNames == {"deb", "ios", "msi", "wxsmsi", "osx", "rpm", "appimage"}

\* the values std::env::consts::OS / TargetInfo::target_os is matched against
OsNames == {"macos", "ios", "linux", "windows", "freebsd"}

\* the package types of an invocation: the --format option, else those of
\* the OS
PackageTypesOf(fmt, o) ==
    IF fmt # None THEN <<fmt[1]>>
    ELSE CASE o = "macos" -> <<"osx">>
           [] o = "ios" -> <<"ios">>
           [] o = "linux" -> <<"deb", "appimage">>
           [] o = "windows" -> <<"msi">>
           [] OTHER -> <<>>

PackageTypeLists == UNION {[1..n -> AllShortNames] : n \in 0..MaxFormats}

InitRun ==
    /\ pc = "run_start"
    /\ format \in {None} \cup {Some(f) : f \in AllShortNames}
    /\ os \in OsNames
    /\ skip_build \in BOOLEAN
    /\ package_types = <<>>
    /\ type_index = 0
    /\ attempted = <<>>
    /\ IdleMerge
    /\ IdleResolve
    /\ IdleWorkspace
    /\ IdleFs
    /\ IdleIter
    /\ IdleMapping
    /\ IdleTargetDir

InitBundleProject ==
    /\ pc = "bp_loop"
    /\ format = None
    /\ os = ""
    /\ skip_build = FALSE
    /\ package_types \in PackageTypeLists
    /\ type_index = 0
    /\ attempted = <<>>
    /\ IdleMerge
    /\ IdleResolve
    /\ IdleWorkspace
    /\ IdleFs
    /\ IdleIter
    /\ IdleMapping
    /\ IdleTargetDir

\* what every action of the run loop leaves alone
RunFrame ==
    /\ UNCHANGED <<format, os, skip_build>>
    /\ UNCHANGED <<mergeVars, resolveVars, workspaceVars, fsVars, iterVars,
                   mappingVars, targetDirVars>>

\* run: the package types are computed from the command line
RunPackageTypes ==
    /\ pc = "run_start"
    /\ package_types' = PackageTypesOf(format, os)
    /\ pc' = "run_loop"
    /\ UNCHANGED <<type_index, attempted>>
    /\ RunFrame

\* run: the loop takes the next package type and builds its
\* BundleTargetInfo; expect() panics when try_into fails
RunTargetInfo ==
    /\ pc = "run_loop"
    /\ type_index < Len(package_types)
    /\ type_index' = type_index + 1
    /\ \E ok \in BOOLEAN :
          pc' = IF ok THEN "run_settings" ELSE "run_panicked"
    /\ UNCHANGED <<package_types, attempted>>
    /\ RunFrame

\* run: Settings::new(..)? returns the error from run, and panics where
\* get_bundle_settings panics
RunSettingsNew ==
    /\ pc = "run_settings"
    /\ \E r \in {"ok", "err", "panic"} :
          pc' = CASE r = "ok" -> "run_build"
                  [] r = "err" -> "run_err"
                  [] OTHER -> "run_panicked"
    /\ UNCHANGED <<package_types, type_index, attempted>>
    /\ RunFrame

\* run: build_project_if_unbuilt(..)? -- Ok at once when
\* CARGO_BUNDLE_SKIP_BUILD is set, else as `cargo build` fares
RunBuild ==
    /\ pc = "run_build"
    /\ \E ok \in (IF skip_build THEN {TRUE} ELSE BOOLEAN) :
          pc' = IF ok THEN "run_bundle" ELSE "run_err"
    /\ UNCHANGED <<package_types, type_index, attempted>>
    /\ RunFrame

\* run: package_type.bundle_project(..)? is called for the current type
RunBundle ==
    /\ pc = "run_bundle"
    /\ attempted' = Append(attempted, package_types[type_index])
    /\ \E ok \in BOOLEAN :
          pc' = IF ok THEN "run_print" ELSE "run_err"
    /\ UNCHANGED <<package_types, type_index>>
    /\ RunFrame

\* run: bundle::print_finished(..)? ends the loop body
RunPrintFinished ==
    /\ pc = "run_print"
    /\ \E ok \in BOOLEAN :
          pc' = IF ok THEN "run_loop" ELSE "run_err"
    /\ UNCHANGED <<package_types, type_index, attempted>>
    /\ RunFrame

\* run: the loop is over, Ok(())
RunReturn ==
    /\ pc = "run_loop"
    /\ type_index = Len(package_types)
    /\ pc' = "run_ok"
    /\ UNCHANGED <<package_types, type_index, attempted>>
    /\ RunFrame

\* bundle_project: package_type.bundle_project(&settings)? for the next type
BundleProjectStep ==
    /\ pc = "bp_loop"
    /\ type_index < Len(package_types)
    /\ type_index' = type_index + 1
    /\ attempted' = Append(attempted, package_types[type_index + 1])
    /\ \E ok \in BOOLEAN :
          pc' = IF ok THEN "bp_loop" ELSE "bp_err"
    /\ UNCHANGED package_types
    /\ RunFrame

\* bundle_project: the loop is over, Ok(paths)
BundleProjectReturn ==
    /\ pc = "bp_loop"
    /\ type_index = Len(package_types)
    /\ pc' = "bp_ok"
    /\ UNCHANGED <<package_types, type_index, attempted>>
    /\ RunFrame

NextRun ==
    \/ RunPackageTypes
    \/ RunTargetInfo
    \/ RunSettingsNew
    \/ RunBuild
    \/ RunBundle
    \/ RunPrintFinished
    \/ RunReturn
    \/ BundleProjectStep
    \/ BundleProjectReturn

SpecRun == (InitRun \/ InitBundleProject) /\ [][NextRun]_vars

-----------------------------------------------------------------------------
(* Claims about the run loop.                                              *)

\* run or bundle_project is over, by a return or by a panic
RunOver == pc \in {"run_ok", "run_err", "run_panicked", "bp_ok", "bp_err"}

\* C11: format isolation -- when several packaging formats are processed in
\* one invocation, a failure while resolving, building or bundling an
\* earlier format does not cancel the later ones: once the invocation is
\* over, bundle_project has been called for every requested format, in
\* order.
FormatIsolation == RunOver => attempted = package_types

-----------------------------------------------------------------------------
(* The build output directory: BundleTargetInfo::get_target_dir.           *)

\* PathBuf::push of a plain name
push(p, segment) == Append(p, segment)

\* Option::unwrap_or
unwrap_or(opt, default) == IF opt # None THEN opt[1] ELSE default

\* the segment pushed for the profile
ProfileSegment_literal(prof) == prof
ProfileSegment(prof) == IF prof = "dev" THEN "debug" ELSE prof

get_target_dir(queried, out_directory, triple, prof, build_artifact) ==
    LET base == unwrap_or(queried, join(out_directory, <<"target">>))
        with_triple == IF triple # None THEN push(base, triple[1]) ELSE base
        with_profile == push(with_triple, ProfileSegment(prof))
    IN  IF build_artifact.kind = "Example"
            THEN push(with_profile, "examples")
            ELSE with_profile

\* what `cargo metadata` reports as target_directory, if it can be queried
TargetDirectories ==
    {None, Some(<<"ws", "target">>), Some(<<"cache", "cargo-target">>)}
\* the --target option
TargetTriples ==
    {None, Some("x86_64-unknown-linux-gnu"), Some("aarch64-apple-ios")}
\* "dev", "release" or a custom profile; the name "debug" is refused when
\* the command line is read
Profiles == {"dev", "release", "bench-opt"}
BuildArtifacts == {Main, Bin("foo"), Example("baz")}

InitTargetDir ==
    /\ pc = "td_call"
    /\ target_directory \in TargetDirectories
    /\ project_out_directory \in Dirs
    /\ target_triple \in TargetTriples
    /\ profile \in Profiles
    /\ artifact \in BuildArtifacts
    /\ target_path = None
    /\ IdleMerge
    /\ IdleResolve
    /\ IdleWorkspace
    /\ IdleFs
    /\ IdleIter
    /\ IdleMapping
    /\ IdleRun

GetTargetDir ==
    /\ pc = "td_call"
    /\ target_path' =
          Some(get_target_dir(target_directory, project_out_directory,
                              target_triple, profile, artifact))
    /\ pc' = "td_done"
    /\ UNCHANGED <<target_directory, project_out_directory, target_triple,
                   profile, artifact>>
    /\ UNCHANGED <<mergeVars, resolveVars, workspaceVars, fsVars, iterVars,
                   mappingVars, runVars>>

NextTargetDir == GetTargetDir
SpecTargetDir == InitTargetDir /\ [][NextTargetDir]_vars

-----------------------------------------------------------------------------
(* Claims about get_target_dir.                                            *)

\* the base directory: the queried target_directory, else <workspace>/target
TargetBase ==
    IF target_directory # None THEN target_directory[1]
                               ELSE project_out_directory \o <<"target">>

\* C16: build output directory -- get_target_dir returns the base (the
\* queried target_directory, else <workspace>/target) followed, in this
\* order, by the target triple segment exactly when a triple was given, then
\* the profile segment ("debug" for the profile "dev", otherwise the
\* profile name), then "examples" exactly when the artifact is an example.
TargetDirLayout ==
    pc = "td_done" =>
        target_path =
            Some(TargetBase
                 \o (IF target_triple = None THEN <<>> ELSE target_triple)
                 \o (IF profile = "dev" THEN <<"debug">> ELSE <<profile>>)
                 \o (IF artifact.kind = "Example" THEN <<"examples">>
                                                  ELSE <<>>))

\* a cross-compiled example of the dev profile, target_directory unknown:
\* all three segments follow <workspace>/target
TargetDirLayoutWitness ==
    /\ pc = "td_done"
    /\ target_directory = None
    /\ target_triple = Some("aarch64-apple-ios")
    /\ profile = "dev"
    /\ artifact = Example("baz")
    /\ target_path =
          Some(project_out_directory
               \o <<"target", "aarch64-apple-ios", "debug", "examples">>)

-----------------------------------------------------------------------------
(* The whole model: any one of the operations above, from its own start.   *)

Init ==
    \/ InitMerge
    \/ InitResolve
    \/ InitWorkspace
    \/ InitResources
    \/ InitMapping
    \/ InitRun
    \/ InitBundleProject
    \/ InitTargetDir

Next ==
    \/ NextMerge
    \/ NextResolve
    \/ NextWorkspace
    \/ NextResources
    \/ NextMapping
    \/ NextRun
    \/ NextTargetDir

Spec == Init /\ [][Next]_vars

====
